---- MODULE Spec2Model ----
(***************************************************************************)
(* A model of src/docker.rs: the container spec Builder, the build         *)
(* operation build_disposable, the ContainerHandle with url / url_by and   *)
(* its Drop, the inspection helpers get_host_port / get_name, and the      *)
(* container runtime these talk to; and of src/fs.rs: the TempFileFaker    *)
(* and the temporary files it makes.                                       *)
(*                                                                         *)
(* Strings whose content the code looks at (ports, names, URLs) are        *)
(* sequences of one-character strings, so that contains('/'), + "/tcp",    *)
(* strip_prefix("/") and format! are computed and not assumed.  Container  *)
(* identifiers are opaque: the runtime numbers the containers it creates.  *)
(***************************************************************************)
EXTENDS Integers, Sequences, FiniteSets, TLC

\* ------------------------------------------------------------------------
\* Bounds of the model
\* ------------------------------------------------------------------------

\* Number of callers (test scopes) that exist; each builds at most once.
NumCallers == 2

\* Number of builder operations applied after Builder::new.
MaxOps == 2

\* Longest list of bindings an inspection reports for one container port.
MaxBindings == 2

\* Longest port string handed to canonicalize_port, the literals apart.
MaxLen == 3

\* Greatest number of words of a generated file content (a u8 in the code).
MaxWords == 2

\* ------------------------------------------------------------------------
\* Option<T>, and the outcome of a call that may panic
\* ------------------------------------------------------------------------

None == [some |-> FALSE]

Some(x) == [some |-> TRUE, val |-> x]

Returned(x) == [panicked |-> FALSE, val |-> x]

Panicked == [panicked |-> TRUE]

\* ------------------------------------------------------------------------
\* String literals of the code and of its tests
\* ------------------------------------------------------------------------

S_tcp == <<"/", "t", "c", "p">>

S_localhost == <<"l", "o", "c", "a", "l", "h", "o", "s", "t">>

S_loopback == <<"1", "2", "7", ".", "0", ".", "0", ".", "1">>

S_wildcard == <<"0", ".", "0", ".", "0", ".", "0">>

S_mongo == <<"m", "o", "n", "g", "o">>

S_mongodb == <<"m", "o", "n", "g", "o", "d", "b">>

S_redis == <<"r", "e", "d", "i", "s">>

S_nginx == <<"n", "g", "i", "n", "x">>

S_http == <<"h", "t", "t", "p">>

S_27017 == <<"2", "7", "0", "1", "7">>

S_27017tcp == <<"2", "7", "0", "1", "7", "/", "t", "c", "p">>

S_28017 == <<"2", "8", "0", "1", "7">>

S_28018 == <<"2", "8", "0", "1", "8">>

S_80udp == <<"8", "0", "/", "u", "d", "p">>

S_zero == <<"0">>

S_word == <<"w", "o", "r", "d">>

S_lorem == <<"l", "o", "r", "e", "m">>

S_vol == <<"/", "a", ":", "/", "b">>

\* ------------------------------------------------------------------------
\* Pure helpers of src/docker.rs
\* ------------------------------------------------------------------------

Contains(s, ch) == \E i \in 1..Len(s) : s[i] = ch

\* A canonicalize_port that looks for the suffix "/tcp" and not for a '/'.
canonicalize_port_by_suffix(port) ==
    IF Len(port) >= Len(S_tcp) /\ SubSeq(port, Len(port) - Len(S_tcp) + 1, Len(port)) = S_tcp
      THEN port
      ELSE port \o S_tcp

canonicalize_port(port) ==
    IF Contains(port, "/") THEN port ELSE port \o S_tcp

\* A scan that falls back to the first binding when no interface matches.
FirstMatchOrAny(bindings, host_ip) ==
    LET hits == {i \in 1..Len(bindings) : bindings[i].host_ip = host_ip}
    IN  IF bindings = << >> THEN None
        ELSE IF hits = {} THEN bindings[1].host_port
        ELSE bindings[CHOOSE i \in hits : \A j \in hits : i <= j].host_port

\* A scan that passes over the matching bindings that carry no host port.
FirstMatchWithPort(bindings, host_ip) ==
    LET hits == {i \in 1..Len(bindings) :
                    bindings[i].host_ip = host_ip /\ bindings[i].host_port.some}
    IN  IF hits = {} THEN None
        ELSE bindings[CHOOSE i \in hits : \A j \in hits : i <= j].host_port

\* The first binding of the list whose host_ip equals the wanted one:
\* the loop at lines 230-234.
RECURSIVE FirstMatch(_, _)
FirstMatch(bindings, host_ip) ==
    IF bindings = << >> THEN None
    ELSE IF Head(bindings).host_ip = host_ip THEN Head(bindings).host_port
    ELSE FirstMatch(Tail(bindings), host_ip)

\* A get_host_port that compares the interface as it was asked for.
get_host_port_exact(info, host_ip, port) ==
    LET p == canonicalize_port(port)
    IN  IF ~info.network_settings.some THEN None
        ELSE IF ~info.network_settings.val.ports.some THEN None
        ELSE LET port_map == info.network_settings.val.ports.val
             IN  IF p \notin DOMAIN port_map THEN None
                 ELSE IF ~port_map[p].some THEN None
                 ELSE FirstMatch(port_map[p].val, host_ip)

\* ContainerInspectResponseExt::get_host_port; host_ip is an Option.
get_host_port(info, host_ip, port) ==
    LET p  == canonicalize_port(port)
        ip == IF host_ip.some
                THEN Some(IF host_ip.val = S_localhost \/ host_ip.val = S_loopback
                            THEN S_wildcard
                            ELSE host_ip.val)
                ELSE None
    IN  IF ~info.network_settings.some THEN None
        ELSE IF ~info.network_settings.val.ports.some THEN None
        ELSE LET port_map == info.network_settings.val.ports.val
             IN  IF p \notin DOMAIN port_map THEN None
                 ELSE IF ~port_map[p].some THEN None
                 ELSE FirstMatch(port_map[p].val, ip)

\* ContainerInspectResponseExt::get_name
get_name(info) ==
    IF ~info.name.some THEN None
    ELSE LET name == info.name.val
         IN  IF Len(name) >= 1 /\ name[1] = "/"
               THEN Some(Tail(name))
               ELSE Some(name)

\* A url() that takes a missing protocol as the empty string
\* (unwrap_or_default in place of unwrap).
url_or_empty(h) ==
    LET proto == IF h.protocol.some THEN h.protocol.val ELSE << >>
    IN  IF h.default_host_port.some
          THEN Returned(proto \o <<":", "/", "/">> \o h.host_ip
                        \o <<":">> \o h.default_host_port.val \o <<"/">>)
          ELSE Returned(proto \o <<":", "/", "/">> \o h.host_ip \o <<"/">>)

\* A url() without the closing '/'.
url_unclosed(h) ==
    IF ~h.protocol.some THEN Panicked
    ELSE IF h.default_host_port.some
      THEN Returned(h.protocol.val \o <<":", "/", "/">> \o h.host_ip
                    \o <<":">> \o h.default_host_port.val)
      ELSE Returned(h.protocol.val \o <<":", "/", "/">> \o h.host_ip)

\* ContainerHandle::url
url(h) ==
    IF ~h.protocol.some THEN Panicked
    ELSE IF h.default_host_port.some
      THEN Returned(h.protocol.val \o <<":", "/", "/">> \o h.host_ip
                    \o <<":">> \o h.default_host_port.val \o <<"/">>)
      ELSE Returned(h.protocol.val \o <<":", "/", "/">> \o h.host_ip \o <<"/">>)

\* ContainerHandle::url_by; inspected is the Result of the inspect call
\* (None for Err, Some(info) for Ok).
url_by(h, inspected, port) ==
    IF ~h.protocol.some THEN Panicked
    ELSE IF ~inspected.some THEN Panicked
    ELSE LET host_port == get_host_port(inspected.val, Some(h.host_ip), port)
         IN  IF host_port.some
               THEN Returned(Some(h.protocol.val \o <<":", "/", "/">> \o h.host_ip
                                  \o <<":">> \o host_port.val))
               ELSE Returned(None)

\* ------------------------------------------------------------------------
\* Builder
\* ------------------------------------------------------------------------

\* u16::to_string of port_mapping: the decimal digits of n.
Digit(d) == <<"0", "1", "2", "3", "4", "5", "6", "7", "8", "9">>[d + 1]

RECURSIVE to_string(_)
to_string(n) ==
    IF n < 10 THEN <<Digit(n)>> ELSE to_string(n \div 10) \o <<Digit(n % 10)>>

\* The empty HashMap / the map with key k set to v.
EmptyMap == [k \in {} |-> None]

Insert(m, k, v) == [x \in (DOMAIN m) \cup {k} |-> IF x = k THEN v ELSE m[x]]

\* A Builder::new that leaves auto_remove unset.
NewWithoutAutoRemove(image) ==
    [ image          |-> Some(image),
      auto_remove    |-> None,
      port_bindings  |-> None,
      binds          |-> None,
      create_options |-> None,
      protocol       |-> IF image = S_mongo THEN Some(S_mongodb)
                         ELSE IF image = S_redis THEN Some(S_redis)
                         ELSE None,
      default_port   |-> None ]

\* Builder::new: image, inferred protocol, auto_remove of the host config.
New(image) ==
    [ image          |-> Some(image),
      auto_remove    |-> Some(TRUE),
      port_bindings  |-> None,
      binds          |-> None,
      create_options |-> None,
      protocol       |-> IF image = S_mongo THEN Some(S_mongodb)
                         ELSE IF image = S_redis THEN Some(S_redis)
                         ELSE None,
      default_port   |-> None ]

\* A bind_port that replaces the list of the port by the new binding.
bind_port_replacing(self, host_port, port) ==
    LET p       == canonicalize_port(port)
        hp      == IF host_port.some THEN host_port.val ELSE p
        binding == [host_ip |-> Some(S_localhost), host_port |-> Some(hp)]
        pb      == IF self.port_bindings.some THEN self.port_bindings.val
                   ELSE EmptyMap
    IN  [self EXCEPT !.port_bindings = Some(Insert(pb, p, Some(<<binding>>)))]

\* Builder::bind_port; host_port is an Option.
bind_port(self, host_port, port) ==
    LET p       == canonicalize_port(port)
        hp      == IF host_port.some THEN host_port.val ELSE p
        binding == [host_ip |-> Some(S_localhost), host_port |-> Some(hp)]
        pb      == IF self.port_bindings.some THEN self.port_bindings.val
                   ELSE EmptyMap
        pb2     == IF p \in DOMAIN pb /\ pb[p].some
                     THEN [pb EXCEPT ![p] = Some(Append(pb[p].val, binding))]
                     ELSE Insert(pb, p, Some(<<binding>>))
    IN  [self EXCEPT !.port_bindings = Some(pb2)]

\* Builder::bind_port_as_default
bind_port_as_default(self, host_port, port) ==
    LET p == canonicalize_port(port)
    IN  bind_port([self EXCEPT !.default_port = Some(p)], host_port, p)

\* Builder::port_mapping (deprecated); host_port a u16, port an Option<u16>.
port_mapping(self, host_port, port) ==
    LET p == to_string(IF port.some THEN port.val ELSE host_port)
    IN  bind_port(self, Some(to_string(host_port)), p)

\* Builder::bind_volume
bind_volume(self, bind) ==
    [self EXCEPT !.binds =
        Some(Append(IF self.binds.some THEN self.binds.val ELSE << >>, bind))]

\* Builder::name (through Builder::create_options)
name(self, n) == [self EXCEPT !.create_options = Some([name |-> n])]

\* A protocol() that leaves an inferred protocol in place.
protocol_if_absent(self, p) ==
    IF self.protocol.some THEN self ELSE [self EXCEPT !.protocol = Some(p)]

\* Builder::protocol
protocol(self, p) == [self EXCEPT !.protocol = Some(p)]

\* ------------------------------------------------------------------------
\* The container runtime (the daemon behind bollard::Docker and `docker`)
\* ------------------------------------------------------------------------

S_32768 == <<"3", "2", "7", "6", "8">>

S_32769 == <<"3", "2", "7", "6", "9">>

\* The host ports the runtime hands out when host port "0" is requested.
EphemeralPorts == {S_32768, S_32769}

ContainerIds == 1..NumCallers

NoContainer ==
    [ state |-> "absent", name |-> << >>, auto_remove |-> FALSE,
      port_bindings |-> EmptyMap, ports |-> EmptyMap ]

\* A container the runtime knows: created, running, or exited and kept.
Exists(ct) == ct.state \in {"created", "running", "exited"}

\* "27017/tcp" -> "27017" and "tcp"; a string without '/' is all port.
FirstSlash(s) == CHOOSE i \in 1..Len(s) : s[i] = "/" /\ \A j \in 1..(i - 1) : s[j] # "/"

PortPart(s) == IF Contains(s, "/") THEN SubSeq(s, 1, FirstSlash(s) - 1) ELSE s

ProtoPart(s) == IF Contains(s, "/") THEN SubSeq(s, FirstSlash(s) + 1, Len(s)) ELSE << >>

\* The interface the runtime reports for a requested one (the comment at
\* line 213: localhost/127.0.0.1 is reported as 0.0.0.0).
RuntimeHostIp(ip) ==
    IF ip = S_localhost \/ ip = S_loopback THEN S_wildcard ELSE ip

\* The bindings of a request, as <<container port, index>> pairs.
Slots(pb) ==
    UNION {{<<k, i>> : i \in 1..Len(pb[k].val)} : k \in {x \in DOMAIN pb : pb[x].some}}

Requested(pb, s) == pb[s[1]].val[s[2]]

ZeroSlots(pb) == {s \in Slots(pb) : PortPart(Requested(pb, s).host_port.val) = S_zero}

\* <<host port number, protocol>> of an explicit binding.
HostKey(pb, s) == <<PortPart(Requested(pb, s).host_port.val), ProtoPart(s[1])>>

\* Host ports held by the running containers.
HostPortsOf(ct) == {ct.ports[s[1]].val[s[2]].host_port.val : s \in Slots(ct.ports)}

UsedHostPorts(cts) ==
    UNION {HostPortsOf(cts[id]) : id \in {x \in ContainerIds : cts[x].state = "running"}}

\* The explicit bindings of a request can all be made.
Bindable(cts, pb) ==
    /\ \A s \in Slots(pb) \ ZeroSlots(pb) : HostKey(pb, s)[1] \notin UsedHostPorts(cts)
    /\ \A s, t \in Slots(pb) \ ZeroSlots(pb) : s # t => HostKey(pb, s) # HostKey(pb, t)

\* The ways the runtime can choose the host ports of the "0" bindings.
Assignments(cts, pb) ==
    {a \in [ZeroSlots(pb) -> EphemeralPorts \ UsedHostPorts(cts)] :
        \A s, t \in ZeroSlots(pb) : s # t => a[s] # a[t]}

\* The port map the runtime reports once the container runs.
ReportedPorts(pb, a) ==
    [k \in DOMAIN pb |->
        IF ~pb[k].some THEN None
        ELSE Some([i \in 1..Len(pb[k].val) |->
                [ host_ip   |-> Some(RuntimeHostIp(pb[k].val[i].host_ip.val)),
                  host_port |-> Some(IF <<k, i>> \in ZeroSlots(pb)
                                       THEN a[<<k, i>>]
                                       ELSE PortPart(pb[k].val[i].host_port.val)) ]])]

\* The name the runtime reports: the given one, or one of its own, with
\* the leading '/' the runtime prepends.
RuntimeName(create_options, id) ==
    IF create_options.some THEN <<"/">> \o create_options.val.name
    ELSE <<"/", "r">> \o to_string(id)

\* create_container: a new container in state created.
RuntimeCreate(cts, id, b) ==
    [cts EXCEPT ![id] =
        [ state         |-> "created",
          name          |-> RuntimeName(b.create_options, id),
          auto_remove   |-> b.auto_remove.some /\ b.auto_remove.val,
          port_bindings |-> IF b.port_bindings.some THEN b.port_bindings.val ELSE EmptyMap,
          ports         |-> EmptyMap ]]

\* start_container succeeding, with the chosen "0" ports.
RuntimeStart(cts, id, a) ==
    [cts EXCEPT ![id].state = "running",
                ![id].ports = ReportedPorts(cts[id].port_bindings, a)]

\* A container that left the running state: removed when auto_remove is
\* set (line 80), kept as exited otherwise.
RuntimeGone(cts, id) ==
    [cts EXCEPT ![id].state = IF cts[id].auto_remove THEN "removed" ELSE "exited",
                ![id].ports = EmptyMap]

\* `docker stop <id>` carried out by the runtime.
RuntimeStop(cts, id) ==
    IF cts[id].state = "running" THEN RuntimeGone(cts, id) ELSE cts

\* inspect_container by identifier: None is Err, Some(info) is Ok.
InspectInfo(cts, id) ==
    [ id               |-> Some(id),
      name             |-> Some(cts[id].name),
      network_settings |-> Some([ports |-> Some(cts[id].ports)]) ]

inspect_container(cts, id) ==
    IF id \in ContainerIds /\ Exists(cts[id]) THEN Some(InspectInfo(cts, id)) ELSE None

\* inspect_container by name, as the tests do.
inspect_by_name(cts, n) ==
    LET ids == {id \in ContainerIds : Exists(cts[id]) /\ cts[id].name = <<"/">> \o n}
    IN  IF ids = {} THEN None ELSE Some(InspectInfo(cts, CHOOSE id \in ids : TRUE))

\* ------------------------------------------------------------------------
\* State
\* ------------------------------------------------------------------------

VARIABLES
    pc,          \* per caller: where it is (see PcValues)
    builder,     \* per caller: Option of the Builder value it holds
    opsDone,     \* per caller: builder operations it applied as steps of its own
    lastOp,      \* per caller: the last builder operation, its arguments, the builder before it
    opsLog,      \* per caller: the builder operations of its chain, Builder::new first
    local,       \* per caller: Option of container_handle.id inside build_disposable
    handle,      \* per caller: Option of the ContainerHandle returned to it
    calls,       \* per caller: the remote calls of build_disposable made so far, with their outcome
    containers,  \* the runtime: container id -> container
    stopLog,     \* the `docker stop` commands run by Drop, in order
    observed,    \* per caller: the last call of url, url_by, get_host_port or
                 \* canonicalize_port it made, and its result
    exitKind,    \* per caller: how the scope owning the handle was left
    disk,        \* the file system: path -> Option of the bytes of the file there
    temp         \* per caller: Option of the temporary file it asked for

vars == <<pc, builder, opsDone, lastOp, opsLog, local, handle, calls, containers,
          stopLog, observed, exitKind, disk, temp>>

Callers == 1..NumCallers

PcValues ==
    { "idle",            \* the caller takes no part
      "start",           \* before Builder::new
      "builder",         \* holds a Builder
      "await_start",     \* build_disposable: create returned Ok
      "await_inspect",   \* build_disposable: start returned Ok
      "scope",           \* holds the ContainerHandle
      "testing",         \* calls get_host_port / canonicalize_port itself
      "faking",          \* before asking a TempFileFaker for a temporary file
      "holding",         \* holds the TempFile or TempPath
      "released",        \* the scope holding it was left
      "fake_panicked",   \* dummy_with_rng panicked (an unwrap on Err)
      "done",            \* the scope was left and drop returned
      "build_panicked",  \* build_disposable panicked (an unwrap on Err)
      "drop_panicked" }  \* drop panicked (the unwrap at line 52)

\* The ways a scope is left.
ExitKinds == {"normal", "early_return", "unwind"}

\* What Command::output() of `docker stop` can give: Err (the command could
\* not be launched), or Ok with a failure or a success exit status.
StopOutcomes == {"launch_err", "exit_nonzero", "exit_zero"}

NoOp == [op |-> "none", host_port |-> None, port |-> None, before |-> None]

NoObservation == [op |-> "none", port |-> None, inspected |-> None, result |-> Panicked]

\* ------------------------------------------------------------------------
\* Inputs
\* ------------------------------------------------------------------------

Images == {S_mongo, S_redis, S_nginx}

HostPorts == {None, Some(S_zero), Some(S_28017), Some(S_28018)}

Ports == {S_27017, S_27017tcp, S_80udp}

\* port_mapping takes u16 values.
HostPortNumbers == {0, 28017}

PortNumbers == {None, Some(27017)}

\* protocol() takes any string: one no image implies, one an image implies.
Protocols == {S_http, S_redis}

\* A builder operation with its arguments, as opsLog and lastOp hold it.
Op(op, hp, p) == [op |-> op, host_port |-> hp, port |-> p, before |-> None]

\* The builder chains the lifecycle is run with.  Each starts with
\* Builder::new for a recognised or an unrecognised image, named or not,
\* possibly with an earlier binding of container port 27017 or a protocol
\* override ...
BaseChains ==
    LET fresh == {<<Op("new", None, Some(S_mongo))>>, <<Op("new", None, Some(S_nginx))>>}
    IN  fresh \cup {Append(ch, Op("name", None, Some(S_word))) : ch \in fresh}

PreparedChains ==
    BaseChains
    \cup {Append(ch, Op("bind_port", Some(S_28018), Some(S_27017))) : ch \in BaseChains}
    \cup {Append(ch, Op("protocol", None, Some(S_http))) : ch \in BaseChains}

\* ... to which one last operation is applied, or none: a default port with
\* each kind of host port, or a port that is not the default.
LastOps ==
    {NoOp}
    \cup {[op |-> "bind_port_as_default", host_port |-> hp, port |-> Some(S_27017),
           before |-> None] : hp \in HostPorts}
    \cup {[op |-> "bind_port", host_port |-> Some(S_28017), port |-> Some(S_80udp),
           before |-> None]}

Apply(b, o) ==
    IF o.op = "bind_port_as_default" THEN bind_port_as_default(b, o.host_port, o.port.val)
    ELSE IF o.op = "bind_port" THEN bind_port(b, o.host_port, o.port.val)
    ELSE IF o.op = "port_mapping" THEN port_mapping(b, o.host_port.val, o.port)
    ELSE IF o.op = "bind_volume" THEN bind_volume(b, o.port.val)
    ELSE IF o.op = "name" THEN name(b, o.port.val)
    ELSE IF o.op = "protocol" THEN protocol(b, o.port.val)
    ELSE IF o.op = "new" THEN New(o.port.val)
    ELSE b

\* The builder a chain of operations gives; the empty chain gives none.
RECURSIVE Build(_)
Build(ch) ==
    IF ch = << >> THEN None
    ELSE LET front == Build(SubSeq(ch, 1, Len(ch) - 1))
         IN  Some(Apply(IF front.some THEN front.val ELSE None, ch[Len(ch)]))

Prepared == {Build(ch).val : ch \in PreparedChains}

\* ------------------------------------------------------------------------
\* Builder operations, as steps of a caller
\* ------------------------------------------------------------------------

Applied(c, op, hp, p, b) ==
    /\ builder' = [builder EXCEPT ![c] = Some(b)]
    /\ lastOp' = [lastOp EXCEPT ![c] =
                    [op |-> op, host_port |-> hp, port |-> p, before |-> builder[c]]]
    /\ opsLog' = [opsLog EXCEPT ![c] = Append(@, Op(op, hp, p))]
    /\ UNCHANGED <<local, handle, calls, containers, stopLog, observed, exitKind, disk,
                   temp>>

CallNew(c) ==
    /\ pc[c] = "start"
    /\ \E image \in Images : Applied(c, "new", None, Some(image), New(image))
    /\ pc' = [pc EXCEPT ![c] = "builder"]
    /\ UNCHANGED opsDone

CanApply(c) ==
    /\ pc[c] = "builder"
    /\ opsDone[c] < MaxOps
    /\ opsDone' = [opsDone EXCEPT ![c] = @ + 1]
    /\ UNCHANGED pc

CallBindPort(c) ==
    /\ CanApply(c)
    /\ \E hp \in HostPorts, p \in Ports :
          Applied(c, "bind_port", hp, Some(p), bind_port(builder[c].val, hp, p))

CallBindPortAsDefault(c) ==
    /\ CanApply(c)
    /\ \E hp \in HostPorts, p \in Ports :
          Applied(c, "bind_port_as_default", hp, Some(p),
                  bind_port_as_default(builder[c].val, hp, p))

CallPortMapping(c) ==
    /\ CanApply(c)
    /\ \E hp \in HostPortNumbers, p \in PortNumbers :
          Applied(c, "port_mapping", Some(hp), p, port_mapping(builder[c].val, hp, p))

CallBindVolume(c) ==
    /\ CanApply(c)
    /\ Applied(c, "bind_volume", None, Some(S_vol), bind_volume(builder[c].val, S_vol))

CallName(c) ==
    /\ CanApply(c)
    /\ Applied(c, "name", None, Some(S_word), name(builder[c].val, S_word))

CallProtocol(c) ==
    /\ CanApply(c)
    /\ \E p \in Protocols :
          Applied(c, "protocol", None, Some(p), protocol(builder[c].val, p))

\* ------------------------------------------------------------------------
\* build_disposable: connect + create, start, inspect + construct
\* ------------------------------------------------------------------------

Called(c, op, ok) == calls' = [calls EXCEPT ![c] = Append(@, [op |-> op, ok |-> ok])]

BuildPanics(c) == pc' = [pc EXCEPT ![c] = "build_panicked"]

FreshId == CHOOSE id \in ContainerIds :
              /\ containers[id].state = "absent"
              /\ \A j \in ContainerIds : containers[j].state = "absent" => id <= j

NameFree(b) ==
    b.create_options.some =>
        \A id \in ContainerIds :
            Exists(containers[id]) => containers[id].name # RuntimeName(b.create_options, id)

\* Lines 165-171: connect_with_local_defaults().unwrap(), then
\* create_container(..).await.unwrap().
Create(c) ==
    /\ pc[c] = "builder"
    /\ \/ /\ Called(c, "connect", FALSE)
          /\ BuildPanics(c)
          /\ UNCHANGED <<containers, local>>
       \/ /\ Called(c, "create", FALSE)
          /\ BuildPanics(c)
          /\ UNCHANGED <<containers, local>>
       \/ /\ \E id \in ContainerIds : containers[id].state = "absent"
          /\ NameFree(builder[c].val)
          /\ containers' = RuntimeCreate(containers, FreshId, builder[c].val)
          /\ local' = [local EXCEPT ![c] = Some(FreshId)]
          /\ Called(c, "create", TRUE)
          /\ pc' = [pc EXCEPT ![c] = "await_start"]
    /\ UNCHANGED <<builder, opsDone, lastOp, opsLog, handle, stopLog, observed, exitKind,
                   disk, temp>>

\* A start the daemon refused: it removes an auto_remove container itself.
RuntimeStartRefused(cts, id) ==
    IF cts[id].auto_remove THEN [cts EXCEPT ![id].state = "removed"] ELSE cts

\* A build that goes on to inspect without having started the container.
StartForgotten(c) ==
    /\ pc[c] = "await_start"
    /\ Called(c, "start", TRUE)
    /\ pc' = [pc EXCEPT ![c] = "await_inspect"]
    /\ UNCHANGED <<builder, opsDone, lastOp, opsLog, local, handle, stopLog, observed,
                   exitKind, containers, disk, temp>>

\* Lines 172-175: start_container(..).await.unwrap().  A failed start is
\* either refused by the daemon or lost on the way to it.
Start(c) ==
    /\ pc[c] = "await_start"
    /\ LET id == local[c].val
       IN  \/ /\ containers[id].state = "created"
              /\ Bindable(containers, containers[id].port_bindings)
              /\ \E a \in Assignments(containers, containers[id].port_bindings) :
                    containers' = RuntimeStart(containers, id, a)
              /\ Called(c, "start", TRUE)
              /\ pc' = [pc EXCEPT ![c] = "await_inspect"]
           \/ /\ containers' = RuntimeStartRefused(containers, id)
              /\ Called(c, "start", FALSE)
              /\ BuildPanics(c)
           \/ /\ UNCHANGED containers
              /\ Called(c, "start", FALSE)
              /\ BuildPanics(c)
    /\ UNCHANGED <<builder, opsDone, lastOp, opsLog, local, handle, stopLog, observed,
                   exitKind, disk, temp>>

\* A handle whose default host port is the one the builder asked for.
NewHandleAsRequested(b, id, info) ==
    [ container_id      |-> id,
      name              |-> get_name(info),
      host_ip           |-> S_localhost,
      protocol          |-> b.protocol,
      default_host_port |-> IF b.default_port.some
                              THEN b.port_bindings.val[b.default_port.val].val[1].host_port
                              ELSE None ]

\* A handle that falls back on the host port the builder asked for when the
\* inspection does not resolve the default port.
NewHandleOrRequested(b, id, info) ==
    LET resolved == get_host_port(info, Some(S_localhost), b.default_port.val)
    IN  [ container_id      |-> id,
          name              |-> get_name(info),
          host_ip           |-> S_localhost,
          protocol          |-> b.protocol,
          default_host_port |-> IF ~b.default_port.some THEN None
                                ELSE IF resolved.some THEN resolved
                                ELSE b.port_bindings.val[b.default_port.val].val[1].host_port ]

\* Lines 181-192: the handle built from the builder and the inspection.
NewHandle(b, id, info) ==
    [ container_id      |-> id,
      name              |-> get_name(info),
      host_ip           |-> S_localhost,
      protocol          |-> b.protocol,
      default_host_port |-> IF b.default_port.some
                              THEN get_host_port(info, Some(S_localhost), b.default_port.val)
                              ELSE None ]

\* A build that falls back to an empty inspection when inspect fails
\* (unwrap_or_default in place of unwrap) and returns a handle anyway.
InspectOrDefault(c) ==
    /\ pc[c] = "await_inspect"
    /\ LET id == local[c].val
           empty == [id |-> None, name |-> None, network_settings |-> None]
       IN  \/ /\ inspect_container(containers, id).some
              /\ handle' = [handle EXCEPT ![c] =
                    Some(NewHandle(builder[c].val, id, inspect_container(containers, id).val))]
              /\ Called(c, "inspect", TRUE)
              /\ pc' = [pc EXCEPT ![c] = "scope"]
           \/ /\ Called(c, "inspect", FALSE)
              /\ handle' = [handle EXCEPT ![c] = Some(NewHandle(builder[c].val, id, empty))]
              /\ pc' = [pc EXCEPT ![c] = "scope"]
    /\ UNCHANGED <<builder, opsDone, lastOp, opsLog, local, containers, stopLog,
                   observed, exitKind, disk, temp>>

\* A build that stops the container itself when inspect fails.
InspectStopsOnFailure(c) ==
    /\ pc[c] = "await_inspect"
    /\ LET id == local[c].val
       IN  \/ /\ inspect_container(containers, id).some
              /\ handle' = [handle EXCEPT ![c] =
                    Some(NewHandle(builder[c].val, id, inspect_container(containers, id).val))]
              /\ Called(c, "inspect", TRUE)
              /\ pc' = [pc EXCEPT ![c] = "scope"]
              /\ UNCHANGED <<containers, stopLog>>
           \/ /\ Called(c, "inspect", FALSE)
              /\ BuildPanics(c)
              /\ stopLog' = Append(stopLog, [caller |-> c, id |-> id, outcome |-> "exit_zero"])
              /\ containers' = RuntimeStop(containers, id)
              /\ UNCHANGED handle
    /\ UNCHANGED <<builder, opsDone, lastOp, opsLog, local, observed, exitKind, disk,
                   temp>>

\* Lines 176-192: inspect_container(..).await.unwrap(), then the handle.
Inspect(c) ==
    /\ pc[c] = "await_inspect"
    /\ LET id == local[c].val
       IN  \/ /\ inspect_container(containers, id).some
              /\ handle' = [handle EXCEPT ![c] =
                    Some(NewHandle(builder[c].val, id, inspect_container(containers, id).val))]
              /\ Called(c, "inspect", TRUE)
              /\ pc' = [pc EXCEPT ![c] = "scope"]
           \/ /\ Called(c, "inspect", FALSE)
              /\ BuildPanics(c)
              /\ UNCHANGED handle
    /\ UNCHANGED <<builder, opsDone, lastOp, opsLog, local, containers, stopLog,
                   observed, exitKind, disk, temp>>

\* ------------------------------------------------------------------------
\* The handle: Drop, url, url_by
\* ------------------------------------------------------------------------

\* A drop that stops the container created last, not the handle's own.
DropStopsNewest(c, kind, outcome) ==
    LET known == {x \in ContainerIds : containers[x].state # "absent"}
        id    == CHOOSE x \in known : \A y \in known : y <= x
    IN  /\ outcome = "exit_zero" => Exists(containers[id])
        /\ stopLog' = Append(stopLog, [caller |-> c, id |-> id, outcome |-> outcome])
        /\ containers' = IF outcome = "exit_zero" THEN RuntimeStop(containers, id)
                         ELSE containers
        /\ pc' = [pc EXCEPT ![c] = IF outcome = "launch_err" THEN "drop_panicked" ELSE "done"]
        /\ exitKind' = [exitKind EXCEPT ![c] = kind]

\* A drop that forgets the stop on the unwinding path.
DropNoStopOnUnwind(c, kind, outcome) ==
    LET id == handle[c].val.container_id
    IN  /\ outcome = "exit_zero" => Exists(containers[id])
        /\ stopLog' = IF kind = "unwind" THEN stopLog
                       ELSE Append(stopLog, [caller |-> c, id |-> id, outcome |-> outcome])
        /\ containers' = IF outcome = "exit_zero" /\ kind # "unwind"
                            THEN RuntimeStop(containers, id)
                            ELSE containers
        /\ pc' = [pc EXCEPT ![c] = IF outcome = "launch_err" THEN "drop_panicked" ELSE "done"]
        /\ exitKind' = [exitKind EXCEPT ![c] = kind]

\* Lines 46-54: `docker stop <container_id>` is run once and its Result is
\* unwrapped; the exit status is not looked at.  The identifier holds no
\* white space, so trim() leaves it as it is.
Drop(c, kind, outcome) ==
    LET id == handle[c].val.container_id
    IN  /\ outcome = "exit_zero" => Exists(containers[id])
        /\ stopLog' = Append(stopLog, [caller |-> c, id |-> id, outcome |-> outcome])
        /\ containers' = IF outcome = "exit_zero" THEN RuntimeStop(containers, id)
                         ELSE containers
        /\ pc' = [pc EXCEPT ![c] = IF outcome = "launch_err" THEN "drop_panicked" ELSE "done"]
        /\ exitKind' = [exitKind EXCEPT ![c] = kind]

\* The scope that owns the handle is left: by reaching its end, by an early
\* return, or by a panic that unwinds through it (a failed assertion of the
\* tests at lines 275-285).  The handle is dropped on each path.
ScopeExit(c) ==
    /\ pc[c] = "scope"
    /\ \E kind \in ExitKinds, outcome \in StopOutcomes : Drop(c, kind, outcome)
    /\ UNCHANGED <<builder, opsDone, lastOp, opsLog, local, handle, calls, observed,
                   disk, temp>>

\* A call of url(); a panic (protocol absent) unwinds through the scope.
CallUrl(c) ==
    /\ pc[c] = "scope"
    /\ LET r == url(handle[c].val)
       IN  /\ observed' = [observed EXCEPT ![c] =
                  [op |-> "url", port |-> None, inspected |-> None, result |-> r]]
           /\ IF r.panicked
                THEN \E outcome \in StopOutcomes : Drop(c, "unwind", outcome)
                ELSE UNCHANGED <<pc, containers, stopLog, exitKind>>
    /\ UNCHANGED <<builder, opsDone, lastOp, opsLog, local, handle, calls, disk, temp>>

\* An inspect call answered from what was known of the container before,
\* whether the runtime still has it or not.
UrlByInspectsStale(c) ==
    {Some(InspectInfo(containers, handle[c].val.container_id))}

\* The inspect call of url_by (lines 31-35) is made only once the protocol
\* was unwrapped; it fails when the container is gone, or on the way.
UrlByInspects(c) ==
    IF ~handle[c].val.protocol.some THEN {None}
    ELSE {inspect_container(containers, handle[c].val.container_id), None}

\* A call of url_by(port); a panic unwinds through the scope.
CallUrlBy(c) ==
    /\ pc[c] = "scope"
    /\ \E port \in Ports, inspected \in UrlByInspects(c) :
         LET r == url_by(handle[c].val, inspected, port)
         IN  /\ observed' = [observed EXCEPT ![c] =
                    [op |-> "url_by", port |-> Some(port), inspected |-> inspected,
                     result |-> r]]
             /\ IF r.panicked
                  THEN \E outcome \in StopOutcomes : Drop(c, "unwind", outcome)
                  ELSE UNCHANGED <<pc, containers, stopLog, exitKind>>
    /\ UNCHANGED <<builder, opsDone, lastOp, opsLog, local, handle, calls, disk, temp>>

\* The container's process ends by itself.
ContainerExit(id) ==
    /\ containers[id].state = "running"
    /\ containers' = RuntimeGone(containers, id)
    /\ UNCHANGED <<pc, builder, opsDone, lastOp, opsLog, local, handle, calls, stopLog,
                   observed, exitKind, disk, temp>>

\* The container's process ends and the daemon has not removed the
\* container yet: it is still there to inspect, with no port published.
ContainerStops(id) ==
    /\ containers[id].state = "running"
    /\ containers' = [containers EXCEPT ![id].state = "exited", ![id].ports = EmptyMap]
    /\ UNCHANGED <<pc, builder, opsDone, lastOp, opsLog, local, handle, calls, stopLog,
                   observed, exitKind, disk, temp>>

\* The daemon removes an exited container that has auto_remove set.
AutoRemove(id) ==
    /\ containers[id].state = "exited"
    /\ containers[id].auto_remove
    /\ containers' = [containers EXCEPT ![id].state = "removed"]
    /\ UNCHANGED <<pc, builder, opsDone, lastOp, opsLog, local, handle, calls, stopLog,
                   observed, exitKind, disk, temp>>

\* ------------------------------------------------------------------------
\* get_host_port and canonicalize_port, called on their own
\* ------------------------------------------------------------------------

S_any6 == <<":", ":">>

\* The bindings an inspection may report: interface and host port are both
\* Option<String> in bollard's PortBinding.
ReportedHostIps == {None, Some(S_wildcard), Some(S_any6)}

ReportedHostPorts == {None, Some(S_28017), Some(S_28018)}

Bindings == [host_ip : ReportedHostIps, host_port : ReportedHostPorts]

BindingLists == UNION {[1..n -> Bindings] : n \in 0..MaxBindings}

\* The port maps: any entry for "27017/tcp", with or without an entry of
\* another port beside it.
OtherEntries ==
    {None, Some(<<[host_ip |-> Some(S_wildcard), host_port |-> Some(S_28018)]>>)}

PortMaps ==
    LET entries == {None} \cup {Some(l) : l \in BindingLists}
        with    == {Insert(EmptyMap, S_27017tcp, v) : v \in entries}
    IN  {EmptyMap} \cup with
        \cup {Insert(m, S_80udp, w) : m \in {EmptyMap} \cup with, w \in OtherEntries}

\* The ContainerInspectResponse values get_host_port is called on.
Inspections ==
    LET settings == {None, Some([ports |-> None])}
                    \cup {Some([ports |-> Some(m)]) : m \in PortMaps}
    IN  {[id |-> Some(1), name |-> Some(<<"/">> \o S_word), network_settings |-> ns] :
            ns \in settings}

AskedHostIps ==
    {None, Some(S_localhost), Some(S_loopback), Some(S_wildcard), Some(S_any6)}

\* The strings of at most MaxLen characters over a digit, a letter and '/'.
PortChars == {"8", "t", "/"}

PortStrings == Ports \cup UNION {[1..n -> PortChars] : n \in 0..MaxLen}

\* info.get_host_port(host_ip, port), as at lines 278 and 315; each caller
\* makes one such call.
CallGetHostPort(c) ==
    /\ pc[c] = "testing"
    /\ observed[c] = NoObservation
    /\ \E info \in Inspections, host_ip \in AskedHostIps, port \in Ports :
          observed' = [observed EXCEPT ![c] =
              [op |-> "get_host_port", port |-> Some(port), host_ip |-> host_ip,
               inspected |-> Some(info),
               result |-> Returned(get_host_port(info, host_ip, port))]]
    /\ UNCHANGED <<pc, builder, opsDone, lastOp, opsLog, local, handle, calls,
                   containers, stopLog, exitKind, disk, temp>>

\* canonicalize_port(port) of a string, and then of the string that call
\* returned.
CallCanonicalizePort(c) ==
    /\ pc[c] = "testing"
    /\ \/ /\ observed[c] = NoObservation
          /\ \E port \in PortStrings :
             observed' = [observed EXCEPT ![c] =
                 [op |-> "canonicalize_port", port |-> Some(port), again |-> FALSE,
                  inspected |-> None, result |-> Returned(canonicalize_port(port))]]
       \/ /\ observed[c].op = "canonicalize_port"
          /\ ~observed[c].again
          /\ observed' = [observed EXCEPT ![c] =
                 [op |-> "canonicalize_port", port |-> Some(observed[c].result.val),
                  again |-> TRUE, inspected |-> None,
                  result |-> Returned(canonicalize_port(observed[c].result.val))]]
    /\ UNCHANGED <<pc, builder, opsDone, lastOp, opsLog, local, handle, calls,
                   containers, stopLog, exitKind, disk, temp>>

\* ------------------------------------------------------------------------
\* src/fs.rs: TempFileFaker, TempFile, TempPath
\* ------------------------------------------------------------------------

\* The words fake's Words() draws from.
WordList == {<<"a">>, <<"b", "c">>}

\* [String]::join(" ")
RECURSIVE Join(_)
Join(words) ==
    IF words = << >> THEN << >>
    ELSE IF Len(words) = 1 THEN words[1]
    ELSE words[1] \o <<" ">> \o Join(Tail(words))

\* fake_content for TempFileKind::Text: the words Words(len..len + 1) drew,
\* joined.
fake_content(words) == Join(words)

\* TempFileFaker::new: the length is any u8 (Faker), here up to MaxWords.
TempFileFaker_new == [kind |-> "Text", len |-> 0..MaxWords, include_content |-> TRUE]

\* TempFileFaker::with_len, the length being drawn from a range.
with_len(len) == [kind |-> "Text", len |-> len, include_content |-> TRUE]

\* TempFileFaker::include_content
include_content(self, with_content) == [self EXCEPT !.include_content = with_content]

Configs ==
    {TempFileFaker_new}
    \cup {include_content(with_len(1..MaxWords), b) : b \in BOOLEAN}
    \cup {include_content(TempFileFaker_new, FALSE)}

\* A TempFile that carries the content whatever the configuration says.
TempFile_with_content(config, path, content) ==
    [path |-> path, content |-> Some(content)]

\* Lines 70-77: the TempFile returned for a path and the content written.
TempFile_dummy(config, path, content) ==
    [path |-> path, content |-> IF config.include_content THEN Some(content) ELSE None]

\* Lines 85-87: the TempPath is the path of such a TempFile.
TempPath_dummy(config, path, content) ==
    [path |-> TempFile_dummy(config, path, content).path]

Paths == 1..NumCallers

\* NamedTempFile::new makes a file under a name not in use.
FreshPath ==
    LET used == {temp[c].val.path : c \in {x \in Callers : temp[x].some /\ temp[x].val.path # 0}}
    IN  CHOOSE p \in Paths \ used : \A q \in Paths \ used : p <= q

\* What a caller keeps of its request: what it asked for, the content that
\* was generated, the call that failed if one did, and the value returned.
Asked(as, config, content, failed, path, value) ==
    Some([as |-> as, config |-> config, generated |-> content, failed |-> failed,
          path |-> path, value |-> value])

\* faker.fake::<TempFile>() or faker.fake::<TempPath>() (lines 63-78 and
\* 85-87): the content is generated, the file is made and written.  When
\* the write fails, the unwinding drops the TempPath, which removes the file.
FakeTemp(c) ==
    /\ pc[c] = "faking"
    /\ \E as \in {"TempFile", "TempPath"}, config \in Configs :
         \E len \in config.len :
           \E words \in [1..len -> WordList] :
             LET content == fake_content(words)
             IN  \/ /\ temp' = [temp EXCEPT ![c] =
                                   Asked(as, config, content, "create", 0, None)]
                    /\ pc' = [pc EXCEPT ![c] = "fake_panicked"]
                    /\ UNCHANGED disk
                 \/ /\ temp' = [temp EXCEPT ![c] =
                                   Asked(as, config, content, "write", FreshPath, None)]
                    /\ pc' = [pc EXCEPT ![c] = "fake_panicked"]
                    /\ UNCHANGED disk
                 \/ /\ temp' = [temp EXCEPT ![c] =
                          Asked(as, config, content, "none", FreshPath,
                                Some(IF as = "TempFile"
                                       THEN TempFile_dummy(config, FreshPath, content)
                                       ELSE TempPath_dummy(config, FreshPath, content)))]
                    /\ disk' = [disk EXCEPT ![FreshPath] = Some(content)]
                    /\ pc' = [pc EXCEPT ![c] = "holding"]
    /\ UNCHANGED <<builder, opsDone, lastOp, opsLog, local, handle, calls, containers,
                   stopLog, observed, exitKind>>

\* The scope holding the TempFile or TempPath is left, on any path: the
\* drop of the TempPath removes the file.
ReleaseTemp(c) ==
    /\ pc[c] = "holding"
    /\ \E kind \in ExitKinds : exitKind' = [exitKind EXCEPT ![c] = kind]
    /\ disk' = [disk EXCEPT ![temp[c].val.value.val.path] = None]
    /\ pc' = [pc EXCEPT ![c] = "released"]
    /\ UNCHANGED <<builder, opsDone, lastOp, opsLog, local, handle, calls, containers,
                   stopLog, observed, temp>>

\* ------------------------------------------------------------------------
\* Specifications
\* ------------------------------------------------------------------------

Quiet ==
    /\ opsDone = [c \in Callers |-> 0]
    /\ local = [c \in Callers |-> None]
    /\ handle = [c \in Callers |-> None]
    /\ calls = [c \in Callers |-> << >>]
    /\ containers = [id \in ContainerIds |-> NoContainer]
    /\ stopLog = << >>
    /\ observed = [c \in Callers |-> NoObservation]
    /\ exitKind = [c \in Callers |-> "none"]
    /\ disk = [p \in Paths |-> None]
    /\ temp = [c \in Callers |-> None]

\* One caller builds a container from one of the builders above, uses the
\* handle, and leaves the scope.
Init ==
    /\ pc = [c \in Callers |-> IF c = 1 THEN "builder" ELSE "idle"]
    /\ \E ch \in PreparedChains, o \in LastOps :
          LET full  == IF o.op = "none" THEN ch ELSE Append(ch, o)
              front == SubSeq(full, 1, Len(full) - 1)
          IN  /\ builder = [c \in Callers |-> IF c = 1 THEN Build(full) ELSE None]
              /\ lastOp = [c \in Callers |->
                             IF c = 1 THEN [full[Len(full)] EXCEPT !.before = Build(front)]
                             ELSE NoOp]
              /\ opsLog = [c \in Callers |-> IF c = 1 THEN full ELSE << >>]
    /\ Quiet

Next ==
    \/ \E c \in Callers : Create(c)
    \/ \E c \in Callers : Start(c)
    \/ \E c \in Callers : Inspect(c)
    \/ \E c \in Callers : CallUrl(c)
    \/ \E c \in Callers : CallUrlBy(c)
    \/ \E c \in Callers : ScopeExit(c)
    \/ \E id \in ContainerIds : ContainerExit(id)

Spec == Init /\ [][Next]_vars

\* One caller makes a Builder and applies up to MaxOps operations to it.
BuilderInit ==
    /\ pc = [c \in Callers |-> IF c = 1 THEN "start" ELSE "idle"]
    /\ builder = [c \in Callers |-> None]
    /\ lastOp = [c \in Callers |-> NoOp]
    /\ opsLog = [c \in Callers |-> << >>]
    /\ Quiet

BuilderNext ==
    \/ \E c \in Callers : CallNew(c)
    \/ \E c \in Callers : CallBindPort(c)
    \/ \E c \in Callers : CallBindPortAsDefault(c)
    \/ \E c \in Callers : CallPortMapping(c)
    \/ \E c \in Callers : CallBindVolume(c)
    \/ \E c \in Callers : CallName(c)
    \/ \E c \in Callers : CallProtocol(c)

SpecBuilder == BuilderInit /\ [][BuilderNext]_vars

\* One caller makes a Builder, applies up to MaxOps operations to it, builds
\* a container from it at any point of the chain, and asks the handle for
\* its url.
ChainNext ==
    \/ BuilderNext
    \/ \E c \in Callers : Create(c)
    \/ \E c \in Callers : Start(c)
    \/ \E c \in Callers : Inspect(c)
    \/ \E c \in Callers : CallUrl(c)

SpecChain == BuilderInit /\ [][ChainNext]_vars

\* One caller makes a Builder, binds up to MaxOps ports with bind_port and
\* bind_port_as_default, builds a container from it, and asks the handle for
\* its url; the container may end at any time once started, and the daemon
\* removes it in a step of its own.
DefaultNext ==
    \/ \E c \in Callers : CallNew(c)
    \/ \E c \in Callers : CallBindPort(c)
    \/ \E c \in Callers : CallBindPortAsDefault(c)
    \/ \E c \in Callers : Create(c)
    \/ \E c \in Callers : Start(c)
    \/ \E id \in ContainerIds : ContainerStops(id)
    \/ \E id \in ContainerIds : AutoRemove(id)
    \/ \E c \in Callers : Inspect(c)
    \/ \E c \in Callers : CallUrl(c)

SpecDefault == BuilderInit /\ [][DefaultNext]_vars

\* The chains of the two tests, which the test harness runs concurrently:
\* test_build_docker_handle_with_auto_port (lines 303-306) and
\* test_build_docker_handle (lines 267-270), each with a name of its own.
ConcChain(c) ==
    IF c % 2 = 1
      THEN << Op("new", None, Some(S_mongo)),
              Op("bind_port_as_default", Some(S_zero), Some(S_27017)),
              Op("name", None, Some(S_word)) >>
      ELSE << Op("new", None, Some(S_mongo)),
              Op("bind_port_as_default", Some(S_28017), Some(S_27017)),
              Op("name", None, Some(S_lorem)) >>

\* Every caller builds a container from the chain of its test, concurrently
\* with the others, and leaves its scope.
ConcInit ==
    /\ pc = [c \in Callers |-> "builder"]
    /\ builder = [c \in Callers |-> Build(ConcChain(c))]
    /\ lastOp = [c \in Callers |->
          [ConcChain(c)[Len(ConcChain(c))] EXCEPT
              !.before = Build(SubSeq(ConcChain(c), 1, Len(ConcChain(c)) - 1))]]
    /\ opsLog = [c \in Callers |-> ConcChain(c)]
    /\ Quiet

ConcNext ==
    \/ \E c \in Callers : Create(c)
    \/ \E c \in Callers : Start(c)
    \/ \E c \in Callers : Inspect(c)
    \/ \E c \in Callers : ScopeExit(c)
    \/ \E id \in ContainerIds : ContainerExit(id)

SpecConc == ConcInit /\ [][ConcNext]_vars

\* One caller asks a TempFileFaker for a temporary file, holds it, and
\* leaves the scope.
FsInit ==
    /\ pc = [c \in Callers |-> IF c = 1 THEN "faking" ELSE "idle"]
    /\ builder = [c \in Callers |-> None]
    /\ lastOp = [c \in Callers |-> NoOp]
    /\ opsLog = [c \in Callers |-> << >>]
    /\ Quiet

FsNext ==
    \/ \E c \in Callers : FakeTemp(c)
    \/ \E c \in Callers : ReleaseTemp(c)

SpecFs == FsInit /\ [][FsNext]_vars

\* One caller calls the two helpers with inspections and strings of its own.
HelpersInit ==
    /\ pc = [c \in Callers |-> IF c = 1 THEN "testing" ELSE "idle"]
    /\ builder = [c \in Callers |-> None]
    /\ lastOp = [c \in Callers |-> NoOp]
    /\ opsLog = [c \in Callers |-> << >>]
    /\ Quiet

HelpersNext ==
    \/ \E c \in Callers : CallGetHostPort(c)
    \/ \E c \in Callers : CallCanonicalizePort(c)

SpecHelpers == HelpersInit /\ [][HelpersNext]_vars

\* ------------------------------------------------------------------------
\* Properties
\* ------------------------------------------------------------------------

Dropped(c) == pc[c] \in {"done", "drop_panicked"}

\* The stop commands run for container id, as positions of stopLog.
StopsOf(id) == {i \in DOMAIN stopLog : stopLog[i].id = id}

\* C1: for every handle returned by build_disposable, no stop command is
\* run for its container while the handle is alive, exactly one has been
\* run once the owning scope was left, on each of the ways of leaving it
\* (end of scope, early return, unwinding), it was run by the handle's own
\* drop, and there is never more than one.  A stop request is an
\* invocation of `docker stop <id>` by Drop, whatever its outcome.
C1_ExactlyOneStopOnScopeExit ==
    /\ \A c \in Callers :
          handle[c].some =>
              LET n == Cardinality(StopsOf(handle[c].val.container_id))
              IN  /\ n <= 1
                  /\ pc[c] = "scope" => n = 0
                  /\ Dropped(c) => n = 1 /\ exitKind[c] \in ExitKinds
                  /\ pc[c] \in {"scope", "done", "drop_panicked"}
    /\ \A i \in DOMAIN stopLog :
          /\ handle[stopLog[i].caller].some
          /\ handle[stopLog[i].caller].val.container_id = stopLog[i].id
          /\ Dropped(stopLog[i].caller)

\* C1 witness: a scope was left by unwinding and the stop was run once.
C1_Witness ==
    \E c \in Callers :
        /\ handle[c].some
        /\ pc[c] = "done"
        /\ exitKind[c] = "unwind"
        /\ Cardinality(StopsOf(handle[c].val.container_id)) = 1

\* What an independent caller sees of the container of c's handle.
SeenById(c) == inspect_container(containers, handle[c].val.container_id).some

SeenByName(c) ==
    /\ handle[c].val.name.some
    /\ LET r == inspect_by_name(containers, handle[c].val.name.val)
       IN  r.some /\ r.val.id = Some(handle[c].val.container_id)

StopSucceeded(c) ==
    \E i \in StopsOf(handle[c].val.container_id) : stopLog[i].outcome = "exit_zero"

FailedCalls(c) == {i \in DOMAIN calls[c] : ~calls[c][i].ok}

\* C3: a handle exists only after create, start and inspect all returned
\* Ok; a build in which a call failed has panicked at that call and its
\* caller holds no handle.
C3_NoHandleFromFailedBuild ==
    \A c \in Callers :
        /\ handle[c].some =>
              calls[c] = << [op |-> "create", ok |-> TRUE],
                            [op |-> "start", ok |-> TRUE],
                            [op |-> "inspect", ok |-> TRUE] >>
        /\ FailedCalls(c) # {} =>
              /\ pc[c] = "build_panicked"
              /\ ~handle[c].some
              /\ FailedCalls(c) = {Len(calls[c])}

\* C3 witness: create and start succeeded, inspect failed, no handle.
C3_Witness ==
    \E c \in Callers :
        /\ pc[c] = "build_panicked"
        /\ Len(calls[c]) = 3
        /\ calls[c][3] = [op |-> "inspect", ok |-> FALSE]
        /\ ~handle[c].some

C5_FailedStopIsSwallowed ==
    \A i \in DOMAIN stopLog :
        stopLog[i].outcome # "exit_zero" => pc[stopLog[i].caller] = "done"

LastCall(c) == calls[c][Len(calls[c])]

\* C6 as stated: after a build in which create or start failed, no
\* container made by that build is left in the runtime; after one in which
\* inspect failed, the container is left to itself (no stop was run).
C6_NothingLeftAfterFailedStart ==
    \A c \in Callers :
        pc[c] = "build_panicked" =>
            /\ LastCall(c).op \in {"connect", "create", "start"} =>
                  ~local[c].some \/ ~Exists(containers[local[c].val])
            /\ LastCall(c).op = "inspect" => StopsOf(local[c].val) = {}

\* C6 as amended: a failed create leaves no container of that build; a
\* failed start leaves the container the build created, not started, unless
\* the runtime removed it itself; a failed inspect leaves the started
\* container running unless it already exited; the build runs no stop for
\* the container in either case, and the runtime holds exactly the
\* containers that successful create calls made.
C6_FailedBuildCleansNothing ==
    /\ Cardinality({id \in ContainerIds : containers[id].state # "absent"})
          = Cardinality({c \in Callers : local[c].some})
    /\ \A c \in Callers :
          pc[c] = "build_panicked" =>
              /\ LastCall(c).op \in {"connect", "create"} => ~local[c].some
              /\ LastCall(c).op = "start" =>
                    /\ containers[local[c].val].state \in {"created", "removed"}
                    /\ StopsOf(local[c].val) = {}
              /\ LastCall(c).op = "inspect" =>
                    /\ containers[local[c].val].state \in {"running", "removed"}
                    /\ StopsOf(local[c].val) = {}

\* C6 witness: start failed and the created container is still there.
C6_Witness ==
    \E c \in Callers :
        /\ pc[c] = "build_panicked"
        /\ LastCall(c) = [op |-> "start", ok |-> FALSE]
        /\ containers[local[c].val].state = "created"

\* The list of bindings a builder holds for a container port.
BindingsOf(b, key) ==
    IF b.port_bindings.some /\ key \in DOMAIN b.port_bindings.val
         /\ b.port_bindings.val[key].some
      THEN b.port_bindings.val[key].val
      ELSE << >>

\* The last operation of caller c was bind_port or bind_port_as_default.
Bound(c) == lastOp[c].op \in {"bind_port", "bind_port_as_default"}

\* C7 as stated: bind_port(None, port) appends, to the list of the
\* canonicalized container port, a binding whose host port is the port
\* number of the container port ("27017" for container port "27017").
C7_OmittedHostPortIsPortNumber ==
    \A c \in Callers :
        Bound(c) /\ ~lastOp[c].host_port.some =>
            LET key == canonicalize_port(lastOp[c].port.val)
            IN  BindingsOf(builder[c].val, key) =
                    Append(BindingsOf(lastOp[c].before.val, key),
                           [host_ip |-> Some(S_localhost), host_port |-> Some(PortPart(key))])

\* The last builder operation of c declared a default port with an explicit
\* host port.
DefaultDeclared(c) ==
    /\ lastOp[c].op = "bind_port_as_default"
    /\ lastOp[c].host_port.some

DefaultKey(c) ==
    IF Contains(lastOp[c].port.val, "/") THEN lastOp[c].port.val
    ELSE lastOp[c].port.val \o <<"/", "t", "c", "p">>

UrlWithPort(h, port) ==
    h.protocol.val \o <<":", "/", "/">> \o h.host_ip \o <<":">> \o port \o <<"/">>

C9_UrlByHasShapeOfUrl ==
    \A c \in Callers :
        observed[c].op = "url_by" /\ ~observed[c].result.panicked =>
            LET h  == handle[c].val
                hp == get_host_port(observed[c].inspected.val, Some(h.host_ip),
                                    observed[c].port.val)
            IN  IF hp.some
                  THEN observed[c].result.val = Some(UrlWithPort(h, hp.val))
                  ELSE observed[c].result.val = None

S_mongo_url ==
    << "m", "o", "n", "g", "o", "d", "b", ":", "/", "/",
       "l", "o", "c", "a", "l", "h", "o", "s", "t", ":", "2", "8", "0", "1", "7", "/" >>

\* The builder chain of the test: Builder::new("mongo"), named or not,
\* then bind_port_as_default(Some("28017"), "27017").
MongoChain(c) ==
    /\ lastOp[c].op = "bind_port_as_default"
    /\ lastOp[c].host_port = Some(S_28017)
    /\ lastOp[c].port = Some(S_27017)
    /\ lastOp[c].before \in {Some(New(S_mongo)), Some(name(New(S_mongo), S_word))}

WithProtocol(p) ==
    IF \E i \in 1..Len(p) : p[i] = "/" THEN p ELSE p \o <<"/", "t", "c", "p">>

\* The list of bindings the inspection reports for a container port; the
\* empty list when it reports none.
ReportedFor(info, port) ==
    LET ns == info.network_settings
    IN  IF ns.some /\ ns.val.ports.some /\ WithProtocol(port) \in DOMAIN ns.val.ports.val
             /\ ns.val.ports.val[WithProtocol(port)].some
          THEN ns.val.ports.val[WithProtocol(port)].val
          ELSE << >>

\* The positions of the bindings reported on an interface.
On(list, ip) == {i \in 1..Len(list) : list[i].host_ip = ip}

First(hits) == CHOOSE i \in hits : \A j \in hits : i <= j

\* The last call of c was get_host_port with a loopback alias.
AliasAsked(c) ==
    /\ observed[c].op = "get_host_port"
    /\ observed[c].host_ip \in {Some(S_localhost), Some(S_loopback)}

\* C11 as stated: whenever the inspection holds a binding of container port
\* P to interface "0.0.0.0" with host port H, get_host_port with "localhost"
\* or "127.0.0.1" and P returned H.
C11_AliasResolvesEveryBinding ==
    \A c \in Callers :
        AliasAsked(c) =>
            LET list == ReportedFor(observed[c].inspected.val, observed[c].port.val)
            IN  \A i \in On(list, Some(S_wildcard)) :
                    list[i].host_port.some => observed[c].result = Returned(list[i].host_port)

\* C11 as amended: whenever the inspection holds bindings of container port
\* P to interface "0.0.0.0", get_host_port with "localhost" or "127.0.0.1"
\* and P, with or without its protocol, returned the host port of the first
\* of them; this is H when there is one such binding and its host port is H.
C11_AliasResolvesFirstBinding ==
    \A c \in Callers :
        AliasAsked(c) =>
            LET list == ReportedFor(observed[c].inspected.val, observed[c].port.val)
                hits == On(list, Some(S_wildcard))
            IN  hits # {} => observed[c].result = Returned(list[First(hits)].host_port)

\* C11 witness: "127.0.0.1" was asked for a port given without protocol,
\* the second of two bindings is the only one on "0.0.0.0", and its host
\* port came back.
C11_Witness ==
    \E c \in Callers :
        /\ observed[c].op = "get_host_port"
        /\ observed[c].host_ip = Some(S_loopback)
        /\ observed[c].port = Some(S_27017)
        /\ LET list == ReportedFor(observed[c].inspected.val, observed[c].port.val)
           IN  /\ Len(list) = 2
               /\ On(list, Some(S_wildcard)) = {2}
               /\ list[2].host_port = Some(S_28017)
        /\ observed[c].result = Returned(Some(S_28017))

\* The interface get_host_port looks for.
Normalized(host_ip) ==
    IF host_ip \in {Some(S_localhost), Some(S_loopback)} THEN Some(S_wildcard) ELSE host_ip

\* C12: get_host_port returned (it never panics), and it returned None when
\* the inspection has no network settings or no port map, when the port has
\* no entry, when its list of bindings is missing or empty, and when no
\* binding of the list is reported on the interface looked for.
C12_UnresolvedIsAbsent ==
    \A c \in Callers :
        observed[c].op = "get_host_port" =>
            LET list == ReportedFor(observed[c].inspected.val, observed[c].port.val)
            IN  /\ ~observed[c].result.panicked
                /\ On(list, Normalized(observed[c].host_ip)) = {} =>
                      observed[c].result.val = None

\* C12 witness: the port is bound on other interfaces only, and None came
\* back.
C12_Witness ==
    \E c \in Callers :
        /\ observed[c].op = "get_host_port"
        /\ observed[c].host_ip = Some(S_localhost)
        /\ LET list == ReportedFor(observed[c].inspected.val, observed[c].port.val)
           IN  /\ list # << >>
               /\ \A i \in 1..Len(list) :
                     list[i].host_ip = Some(S_any6) /\ list[i].host_port.some
        /\ observed[c].result = Returned(None)

\* C20: when several bindings of the list of the port are reported on the
\* interface looked for, get_host_port returned the host port of the first
\* of them in list order, and None when that first one carries no host
\* port, whatever the later ones carry.
C20_FirstMatchingBindingWins ==
    \A c \in Callers :
        observed[c].op = "get_host_port" =>
            LET list == ReportedFor(observed[c].inspected.val, observed[c].port.val)
                hits == On(list, Normalized(observed[c].host_ip))
            IN  Cardinality(hits) >= 2 =>
                    /\ observed[c].result = Returned(list[First(hits)].host_port)
                    /\ ~list[First(hits)].host_port.some => observed[c].result.val = None

\* C20 witness: two bindings on the interface looked for, the first without
\* a host port, the second with one, and None came back.
C20_Witness ==
    \E c \in Callers :
        /\ observed[c].op = "get_host_port"
        /\ LET list == ReportedFor(observed[c].inspected.val, observed[c].port.val)
               hits == On(list, Normalized(observed[c].host_ip))
           IN  /\ hits = {1, 2}
               /\ ~list[1].host_port.some
               /\ list[2].host_port.some
        /\ observed[c].result = Returned(None)

\* C13: canonicalize_port(p) returned p + "/tcp" for a p without '/', p
\* itself for a p with a '/', and, called on what it returned, returned it
\* unchanged.
C13_CanonicalizePort ==
    \A c \in Callers :
        observed[c].op = "canonicalize_port" =>
            LET p == observed[c].port.val
            IN  /\ ~observed[c].result.panicked
                /\ (\A i \in 1..Len(p) : p[i] # "/") =>
                      observed[c].result.val = p \o <<"/", "t", "c", "p">>
                /\ (\E i \in 1..Len(p) : p[i] = "/") => observed[c].result.val = p
                /\ observed[c].again => observed[c].result.val = p

\* C13 witness: canonicalize_port was called on "8/tcp", which it had
\* returned for "8", and returned it unchanged.
C13_Witness ==
    \E c \in Callers :
        /\ observed[c].op = "canonicalize_port"
        /\ observed[c].again
        /\ observed[c].port = Some(<<"8", "/", "t", "c", "p">>)
        /\ observed[c].result = Returned(<<"8", "/", "t", "c", "p">>)

\* ------------------------------------------------------------------------
\* Properties of the builder chain and of the handle built from it
\* ------------------------------------------------------------------------

\* The static table of Builder::new.
InferredProtocol(image) ==
    IF image = <<"m", "o", "n", "g", "o">> THEN Some(<<"m", "o", "n", "g", "o", "d", "b">>)
    ELSE IF image = <<"r", "e", "d", "i", "s">> THEN Some(<<"r", "e", "d", "i", "s">>)
    ELSE None

\* The positions of the calls of an operation in a chain.
CallsOf(log, ops) == {i \in 1..Len(log) : log[i].op \in ops}

Last(hits) == CHOOSE i \in hits : \A j \in hits : j <= i

\* The protocol a chain declares: the argument of its last protocol() call,
\* or what the image of its Builder::new implies.
DeclaredProtocol(log) ==
    IF CallsOf(log, {"protocol"}) # {} THEN log[Last(CallsOf(log, {"protocol"}))].port
    ELSE InferredProtocol(log[1].port.val)

\* C14: the protocol of a builder, and of the handle built from it, is the
\* argument of the last protocol() call of the chain when there is one, and
\* otherwise what the table gives for the image ("mongo" -> "mongodb",
\* "redis" -> "redis", nothing for other images); an operation other than
\* Builder::new and protocol() leaves the protocol as it was.
C14_ProtocolOfHandle ==
    \A c \in Callers :
        /\ builder[c].some =>
              /\ builder[c].val.protocol = DeclaredProtocol(opsLog[c])
              /\ lastOp[c].op \notin {"new", "protocol"} =>
                    builder[c].val.protocol = lastOp[c].before.val.protocol
        /\ handle[c].some => handle[c].val.protocol = DeclaredProtocol(opsLog[c])

\* C14 witness: a handle built for image "mongo" after protocol("http") and
\* then protocol("redis"), with protocol "redis".
C14_Witness ==
    \E c \in Callers :
        /\ handle[c].some
        /\ Len(opsLog[c]) = 3
        /\ opsLog[c][1] = Op("new", None, Some(S_mongo))
        /\ opsLog[c][2].op = "protocol" /\ opsLog[c][2].port = Some(S_http)
        /\ opsLog[c][3].op = "protocol" /\ opsLog[c][3].port = Some(S_redis)
        /\ handle[c].val.protocol = Some(S_redis)

\* C15: a call of url() or url_by() on a handle without protocol panicked:
\* it returned no string, url_by made no call to the runtime before, and
\* the panic left the scope that owns the handle.
C15_NoProtocolNoUrl ==
    \A c \in Callers :
        observed[c].op \in {"url", "url_by"} /\ ~handle[c].val.protocol.some =>
            /\ observed[c].result = Panicked
            /\ observed[c].inspected = None
            /\ Dropped(c)
            /\ exitKind[c] = "unwind"

\* C15 witness: url() was called on a handle without protocol, built for an
\* image that is not in the table.
C15_Witness ==
    \E c \in Callers :
        /\ observed[c].op = "url"
        /\ handle[c].val.protocol = None
        /\ opsLog[c][1] = Op("new", None, Some(S_nginx))
        /\ observed[c].result = Panicked

\* The callers that hold or held a handle.
Owners == {c \in Callers : handle[c].some}

\* Each stop command run so far was run by the drop of a handle for that
\* handle's own container.
OwnStopsOnly ==
    \A i \in DOMAIN stopLog :
        /\ stopLog[i].caller \in Owners
        /\ stopLog[i].id = handle[stopLog[i].caller].val.container_id

\* A step in which a stop command is run changes no container but the one
\* of the handle being dropped.
DropTouchesOwnOnly ==
    \A c \in Callers :
        pc[c] = "scope" /\ Dropped(c)' =>
            /\ Len(stopLog') = Len(stopLog) + 1
            /\ stopLog'[Len(stopLog')].id = handle[c].val.container_id
            /\ \A id \in ContainerIds \ {handle[c].val.container_id} :
                  containers'[id] = containers[id]

\* C16: with several callers building and dropping concurrently, the
\* handles have pairwise distinct container identifiers; each stop command
\* is run by the drop of a handle for that handle's own identifier; once
\* every handle was dropped, for each of their containers one stop command
\* was run; and a drop changes no container other than the handle's own.
\* A container has received its stop when `docker stop <id>` was run for it.
C16_ConcurrentTeardown ==
    /\ [](/\ \A c, d \in Owners :
               c # d => handle[c].val.container_id # handle[d].val.container_id
          /\ OwnStopsOnly
          /\ (\A c \in Owners : Dropped(c)) =>
                \A c \in Owners : Cardinality(StopsOf(handle[c].val.container_id)) = 1)
    /\ [][DropTouchesOwnOnly]_vars

\* C16 witness: every caller built a handle, all were dropped, the one
\* built first was dropped last, while the other's container was running.
C16_Witness ==
    /\ Owners = Callers
    /\ \A c \in Callers : Dropped(c)
    /\ Len(stopLog) = NumCallers
    /\ stopLog[1].id > stopLog[Len(stopLog)].id
    /\ stopLog[1].outcome = "exit_zero"
    /\ stopLog[Len(stopLog)].outcome = "exit_zero"
    /\ \A id \in ContainerIds : containers[id].state = "removed"

\* The operations that append a binding: bind_port, and the two that call it.
BindOps == {"bind_port", "bind_port_as_default", "port_mapping"}

\* The container port of a bind call, with its protocol, and the host port
\* the call names.
KeyOf(o) ==
    IF o.op = "port_mapping"
      THEN WithProtocol(to_string(IF o.port.some THEN o.port.val ELSE o.host_port.val))
      ELSE WithProtocol(o.port.val)

HostPortOf(o) ==
    IF o.op = "port_mapping" THEN Some(to_string(o.host_port.val)) ELSE o.host_port

\* The bind calls of a chain for a container port, in call order.
BindCalls(log, key) ==
    LET ForKey(o) == o.op \in BindOps /\ KeyOf(o) = key
    IN  SelectSeq(log, ForKey)

KeysOf(b) == IF b.port_bindings.some THEN DOMAIN b.port_bindings.val ELSE {}

\* C17: every key of the port-binding map of a builder contains a '/'; the
\* keys are the container ports of the bind calls of the chain, with their
\* protocol; the list of a key holds one binding per bind call made for
\* that port, in call order, equal calls included, each with the host port
\* its call named; and a bind call leaves the lists of the other ports as
\* they were.
C17_OneBindingPerCall ==
    \A c \in Callers :
        builder[c].some =>
            LET b   == builder[c].val
                log == opsLog[c]
            IN  /\ \A k \in KeysOf(b) : \E i \in 1..Len(k) : k[i] = "/"
                /\ KeysOf(b) = {KeyOf(log[i]) : i \in CallsOf(log, BindOps)}
                /\ \A k \in KeysOf(b) :
                      /\ Len(BindingsOf(b, k)) = Len(BindCalls(log, k))
                      /\ \A i \in 1..Len(BindCalls(log, k)) :
                            /\ BindingsOf(b, k)[i].host_port.some
                            /\ HostPortOf(BindCalls(log, k)[i]).some =>
                                  BindingsOf(b, k)[i].host_port = HostPortOf(BindCalls(log, k)[i])
                /\ lastOp[c].op \in BindOps =>
                      \A k \in KeysOf(b) \ {KeyOf(lastOp[c])} :
                          BindingsOf(b, k) = BindingsOf(lastOp[c].before.val, k)

\* C17 witness: the same bind call made twice, for a port given without
\* protocol, and two equal bindings in the list of the port.
C17_Witness ==
    \E c \in Callers :
        /\ Len(opsLog[c]) = 3
        /\ opsLog[c][2].op = "bind_port"
        /\ opsLog[c][3].op = "bind_port_as_default"
        /\ \A i \in {2, 3} :
              opsLog[c][i].host_port = Some(S_28017) /\ opsLog[c][i].port = Some(S_27017)
        /\ BindingsOf(builder[c].val, S_27017tcp) =
              << [host_ip |-> Some(S_localhost), host_port |-> Some(S_28017)],
                 [host_ip |-> Some(S_localhost), host_port |-> Some(S_28017)] >>

\* Caller c makes a call of url() or url_by() in this step.
Calls(c, op) == observed'[c] # observed[c] /\ observed'[c].op = op

\* What url_by makes of the answer to its inspect call.
UrlByResult(h, inspected, port) ==
    IF ~h.protocol.some \/ ~inspected.some THEN Panicked
    ELSE LET list == ReportedFor(inspected.val, port)
             hits == On(list, Normalized(Some(h.host_ip)))
         IN  IF hits = {} \/ ~list[First(hits)].host_port.some THEN Returned(None)
             ELSE Returned(Some(h.protocol.val \o <<":", "/", "/">> \o h.host_ip
                                \o <<":">> \o list[First(hits)].host_port.val))

\* C19: each call of url_by on a handle with a protocol inspects the
\* container as the runtime has it at the time of the call (or the call
\* fails), and the result is made from that answer alone; a call of url()
\* makes no call to the runtime and its result is made from the protocol,
\* host_ip and default_host_port the handle was given when it was built.
C19_UrlByInspectsAfresh ==
    [][\A c \in Callers :
          /\ Calls(c, "url_by") =>
                LET h == handle[c].val
                IN  /\ h.protocol.some =>
                          observed'[c].inspected
                              \in {inspect_container(containers, h.container_id), None}
                    /\ observed'[c].result =
                          UrlByResult(h, observed'[c].inspected, observed'[c].port.val)
                    /\ handle'[c] = handle[c]
          /\ Calls(c, "url") =>
                LET h == handle[c].val
                IN  /\ observed'[c].inspected = None
                    /\ h.protocol.some /\ h.default_host_port.some =>
                          observed'[c].result = Returned(UrlWithPort(h, h.default_host_port.val))
                    /\ handle'[c] = handle[c]
                    /\ containers' = containers \/ observed'[c].result.panicked
      ]_vars

\* C19 witness: the default port was resolved when the handle was built;
\* the container has gone since (the stop of the drop that followed the
\* call did not remove it); url_by for that port inspected again and failed
\* on the container that is not there.
C19_Witness ==
    \E c \in Callers :
        /\ observed[c].op = "url_by"
        /\ handle[c].val.protocol.some
        /\ handle[c].val.default_host_port.some
        /\ WithProtocol(observed[c].port.val) = builder[c].val.default_port.val
        /\ containers[handle[c].val.container_id].state = "removed"
        /\ stopLog[1].outcome # "exit_zero"
        /\ observed[c].inspected = None
        /\ observed[c].result = Panicked

\* The default port a chain declares: the container port of its last
\* bind_port_as_default call, with its protocol; None without such a call.
DefaultCalls(log) == CallsOf(log, {"bind_port_as_default"})

DeclaredDefault(log) ==
    IF DefaultCalls(log) = {} THEN None
    ELSE Some(WithProtocol(log[Last(DefaultCalls(log))].port.val))

\* The host port an inspection reports for a container port on "0.0.0.0",
\* the interface "localhost" is reported as: that of the first such binding.
Resolved(info, port) ==
    LET list == ReportedFor(info, port)
        hits == On(list, Some(S_wildcard))
    IN  IF hits = {} THEN None ELSE list[First(hits)].host_port

\* C21: when the inspection taken after start does not resolve the declared
\* default port, build_disposable still returns a handle, with
\* default_host_port absent, and url() on it (the handle having a protocol)
\* returns "{protocol}://{host_ip}/"; after several bind_port_as_default
\* calls the default port is the container port of the last one, and the
\* bindings of all bind calls are kept.  In three parts: the builder of a
\* chain; the result of url(); and the step in which the inspect call of
\* build_disposable is answered Ok, which gives the caller a handle whose
\* default_host_port is what the answer reports for the declared default
\* port.
C21_UnresolvedDefault ==
    /\ [](\A c \in Callers :
            builder[c].some =>
                LET b   == builder[c].val
                    log == opsLog[c]
                IN  /\ b.default_port = DeclaredDefault(log)
                    /\ KeysOf(b) = {KeyOf(log[i]) : i \in CallsOf(log, BindOps)}
                    /\ \A k \in KeysOf(b) :
                          Len(BindingsOf(b, k)) = Len(BindCalls(log, k)))
    /\ [](\A c \in Callers :
            /\ observed[c].op = "url"
            /\ DeclaredDefault(opsLog[c]).some
            /\ handle[c].val.protocol.some
            /\ ~handle[c].val.default_host_port.some
            => observed[c].result =
                  Returned(handle[c].val.protocol.val \o <<":", "/", "/">>
                           \o S_localhost \o <<"/">>))
    /\ [][\A c \in Callers :
            /\ pc[c] = "await_inspect"
            /\ calls'[c] # calls[c]
            /\ calls'[c][Len(calls'[c])].ok
            => LET info == InspectInfo(containers, local[c].val)
                   d    == DeclaredDefault(opsLog[c])
               IN  /\ pc'[c] = "scope"
                   /\ handle'[c].some
                   /\ handle'[c].val.default_host_port =
                         IF d.some THEN Resolved(info, d.val) ELSE None
                   /\ d.some /\ ReportedFor(info, d.val) = << >> =>
                         handle'[c].val.default_host_port = None]_vars

\* C21 witness: a handle built for image "mongo" after
\* bind_port_as_default(_, "27017") and bind_port_as_default(_, "80/udp"),
\* from the inspection of a container that had ended already: both bindings
\* in the builder, default port "80/udp", no default_host_port, and url()
\* returned "mongodb://localhost/".
C21_Witness ==
    \E c \in Callers :
        /\ Len(opsLog[c]) = 3
        /\ opsLog[c][1] = Op("new", None, Some(S_mongo))
        /\ opsLog[c][2].op = "bind_port_as_default" /\ opsLog[c][2].port = Some(S_27017)
        /\ opsLog[c][3].op = "bind_port_as_default" /\ opsLog[c][3].port = Some(S_80udp)
        /\ builder[c].val.default_port = Some(S_80udp)
        /\ KeysOf(builder[c].val) = {S_27017tcp, S_80udp}
        /\ handle[c].some
        /\ handle[c].val.default_host_port = None
        /\ observed[c].op = "url"
        /\ observed[c].result =
              Returned(<< "m", "o", "n", "g", "o", "d", "b", ":", "/", "/",
                          "l", "o", "c", "a", "l", "h", "o", "s", "t", "/" >>)

\* ------------------------------------------------------------------------
\* Properties of the temporary files
\* ------------------------------------------------------------------------

\* C18: while a caller holds the TempFile or TempPath it was given, the
\* file of its path exists and its bytes are the generated content; the
\* content field of a TempFile is Some(the generated content) when the
\* configuration has include_content and None when it has not; once the
\* scope holding the value was left, the file does not exist.
C18_TempFileLifetime ==
    \A c \in Callers :
        /\ pc[c] = "holding" =>
              LET t == temp[c].val
              IN  /\ disk[t.value.val.path] = Some(t.generated)
                  /\ t.as = "TempFile" =>
                        /\ t.config.include_content => t.value.val.content = Some(t.generated)
                        /\ ~t.config.include_content => t.value.val.content = None
        /\ pc[c] = "released" => disk[temp[c].val.value.val.path] = None

\* C18 witness: a TempFile asked for without content was held, and after
\* the scope was left by unwinding its file is gone.
C18_Witness ==
    \E c \in Callers :
        /\ pc[c] = "released"
        /\ exitKind[c] = "unwind"
        /\ temp[c].val.as = "TempFile"
        /\ ~temp[c].val.config.include_content
        /\ temp[c].val.value.val.content = None
        /\ temp[c].val.generated = <<"a", " ", "b", "c">>
        /\ disk[temp[c].val.path] = None

====
